---- MODULE Spec2Model ----
(***************************************************************************)
(* State-machine model of src/index.ts: the WalletConnectProvider          *)
(* dispatcher (sendAsync), the module-level session slots (webconnector,   *)
(* sessionPromise), createWebconnector and the listeners it registers.     *)
(*                                                                         *)
(* One JavaScript task is one action.  The promise continuations a task    *)
(* makes ready (microtasks) run before the next task: every task action is *)
(* guarded by Quiescent, and Resume runs the ready continuations in the    *)
(* order they were registered.                                             *)
(***************************************************************************)
EXTENDS Integers, Sequences, FiniteSets, TLC

VARIABLES
  webconnector,    \* module variable webconnector: 0 is null, else an instance
  sessionPromise,  \* module variable sessionPromise: 0 is null, else the promise
                   \* returned by createWebconnector for that instance
  insts,           \* the WalletConnect instances created so far
  modal,           \* the QR modal: 0 closed, else the instance whose abort
                   \* callback it holds
  params,          \* params array of each caller-owned request object
  calls,           \* the sendAsync calls issued so far: the request object, the
                   \* promise chained on, the position (wait: chained on p;
                   \* custom: sendCustomRequest pending; http: the request is
                   \* sent; done), the callback invocations, the payloads
                   \* handed to sendCustomRequest, and what the call found:
                   \* sessionPromise (sp0), the number of instances (n0),
                   \* and whether p was pending, so that it was suspended
  hooks,           \* the lifecycle hooks of this.callbacks that ran, each with
                   \* the instance whose listener or callback ran it
  abortSaw,        \* what onAbort saw in the two slots when it last ran
  showQRCode       \* this.showQRCode

vars == <<webconnector, sessionPromise, insts, modal, params, calls, hooks,
          abortSaw, showQRCode>>

----------------------------------------------------------------------------
(* Bounds *)

MaxCalls == 2

----------------------------------------------------------------------------
(* Constants of the program *)

walletconnectMethods ==
  {"eth_signTransaction", "eth_sendTransaction", "eth_sign",
   "eth_signTypedDataLegacy", "eth_signTypedData", "personal_sign"}

supportedMethods == {"eth_accounts"} \cup walletconnectMethods

(* The caller-owned request objects: payload.method, payload.id and        *)
(* payload.jsonrpc of each.  The first three, one of each branch of        *)
(* sendAsync, are dispatched together with the events of the session; all  *)
(* of them, one for every method the module names and two it does not, are *)
(* dispatched when the routing alone is examined.                          *)
Requests == 1..3

AllRequests == 1..9

Method ==
  <<"eth_accounts", "eth_sendTransaction", "eth_blockNumber",
    "eth_signTransaction", "eth_sign", "eth_signTypedDataLegacy",
    "eth_signTypedData", "personal_sign", "net_version">>

ReqId == <<11, 12, 13, 14, 15, 16, 17, 18, 19>>

ReqVer == <<"2.0", "2.0", "2.0", "2.0", "2.0", "2.0", "2.0", "2.0", "2.0">>

(* params[0].chainId of each request object (0: it has none). *)
ChainIdOf == <<0, 137, 0, 0, 0, 0, 0, 0, 0>>

(* The account lists a wallet approves a session with, pushes in a         *)
(* session_update, and a stored session is restored with.                  *)
ConnectAccounts == {<<"a1">>}

UpdateAccounts == {<<"a2">>}

RestoredAccounts == {<<>>, <<"a1">>}

HookNames == {"onConnect", "onCreate", "onAbort", "onUpdate", "onDisconnect"}

----------------------------------------------------------------------------
(* Pure functions *)

HexDigit(d) == SubSeq("0123456789abcdef", d + 1, d + 1)

RECURSIVE HexDigits(_)
HexDigits(n) == IF n < 16 THEN HexDigit(n)
                ELSE HexDigits(n \div 16) \o HexDigit(n % 16)

(* convertNumberToHex of @walletconnect/utils: "0x" and the hex digits.    *)
convertNumberToHex(n) == "0x" \o HexDigits(n)

(* Faulty variant: every supported method is taken for a signing method.   *)
classifyWithoutAccountsBranch(m) ==
  IF m \in supportedMethods THEN "SigningSession" ELSE "PlainRelay"

(* The three branches of sendAsync. *)
classify(m) ==
  IF m \in supportedMethods
    THEN IF m \in walletconnectMethods THEN "SigningSession"
         ELSE IF m = "eth_accounts" THEN "AccountsQuery" ELSE "None"
    ELSE "PlainRelay"

(* The second argument a callback can get. *)
Absent == [id |-> 0, jsonrpc |-> "", rkind |-> "absent", result |-> <<>>]

RawText == [id |-> 0, jsonrpc |-> "", rkind |-> "raw", result |-> <<>>]

(* Faulty variant: the id is not among the keys copied from the payload.   *)
getCallbackWithoutId(r, err, rkind, result) ==
  [err |-> err,
   res |-> [id |-> 0, jsonrpc |-> ReqVer[r], rkind |-> rkind, result |-> result]]

(* getCallback(payload, cb)(err, result): cb(err, {id, jsonrpc, result}).  *)
getCallback(r, err, rkind, result) ==
  [err |-> err,
   res |-> [id |-> ReqId[r], jsonrpc |-> ReqVer[r], rkind |-> rkind, result |-> result]]

(* The body a JSON-RPC node answers request r with, once parsed. *)
ParsedBody(r) ==
  [id |-> ReqId[r], jsonrpc |-> ReqVer[r], rkind |-> "value", result |-> <<"0x10">>]

----------------------------------------------------------------------------
(* Promises *)

(* State of the promise p awaited by a call: 0 is Promise.resolve([]).     *)
PromiseState(p) == IF p = 0 THEN "resolved" ELSE insts[p].promise

Ready(c) == calls[c].pc = "wait" /\ PromiseState(calls[c].p) # "pending"

(* No promise continuation is ready to run. *)
Quiescent == \A c \in 1..Len(calls) : ~Ready(c)

----------------------------------------------------------------------------
(* Initial state: the module has just been loaded and a provider built.    *)

InitParams ==
  << <<>>, <<"tx">>, <<>>, <<"tx">>, <<"msg">>, <<"msg">>, <<"msg">>, <<"msg">>,
     <<>> >>

Init ==
  /\ webconnector = 0
  /\ sessionPromise = 0
  /\ insts = <<>>
  /\ modal = 0
  /\ params = InitParams
  /\ calls = <<>>
  /\ hooks = {}
  /\ abortSaw = [wc |-> -1, sp |-> -1]
  /\ showQRCode \in BOOLEAN

----------------------------------------------------------------------------
(* createWebconnector *)

(* The instance new WalletConnect({bridge}) gives and what the rest of     *)
(* createWebconnector does with it.  conn is webconnector.connected right  *)
(* after construction, accts is webconnector.session.accounts.             *)
(*   not connected: the connect and disconnect listeners are registered    *)
(*     and createSession() is requested; the returned promise is pending.  *)
(*   connected with accounts: the returned promise is resolved.            *)
(*   connected without accounts: the session_update listener is            *)
(*     registered; the returned promise is pending.                        *)
(* ops is what createWebconnector calls on the instance, in the order of   *)
(* the calls.                                                              *)
(* Faulty variant: the session is requested before the listeners are       *)
(* registered.                                                             *)
createWebconnectorLateListeners(conn, accts) ==
  IF ~conn
    THEN [connected |-> FALSE, accounts |-> <<>>, phase |-> "creating",
          promise |-> "pending", listens |-> "connect", killed |-> FALSE,
          ops |-> <<"createSession", "on:connect", "on:disconnect">>]
    ELSE IF Len(accts) > 0
      THEN [connected |-> TRUE, accounts |-> accts, phase |-> "approved",
            promise |-> "resolved", listens |-> "none", killed |-> FALSE,
            ops |-> <<>>]
      ELSE [connected |-> TRUE, accounts |-> <<>>, phase |-> "approved",
            promise |-> "pending", listens |-> "update", killed |-> FALSE,
            ops |-> <<"on:session_update">>]

createWebconnector(conn, accts) ==
  IF ~conn
    THEN [connected |-> FALSE, accounts |-> <<>>, phase |-> "creating",
          promise |-> "pending", listens |-> "connect", killed |-> FALSE,
          ops |-> <<"on:connect", "on:disconnect", "createSession">>]
    ELSE IF Len(accts) > 0
      THEN [connected |-> TRUE, accounts |-> accts, phase |-> "approved",
            promise |-> "resolved", listens |-> "none", killed |-> FALSE,
            ops |-> <<>>]
      ELSE [connected |-> TRUE, accounts |-> <<>>, phase |-> "approved",
            promise |-> "pending", listens |-> "update", killed |-> FALSE,
            ops |-> <<"on:session_update">>]

----------------------------------------------------------------------------
(* sendAsync: the synchronous part *)

(* Faulty variant: the memo test is dropped, every supported call          *)
(* negotiates.                                                             *)
StartsNegotiationAlways(m, sp) == m \in supportedMethods

(* Faulty variant: the memo test is made for every method, supported or    *)
(* not.                                                                    *)
StartsNegotiationAnyMethod(m, sp) == sp = 0

(* if (supportedMethods.indexOf(payload.method) > -1) if (!sessionPromise) *)
StartsNegotiation(m, sp) == m \in supportedMethods /\ sp = 0

(* Faulty variant: no call waits for the session future.                   *)
AwaitsNothing(m, sp) == 0

(* Faulty variant: every call waits for the session future, if any.        *)
AwaitsSession(m, sp) == sp

(* The promise p the call chains on: Promise.resolve([]), replaced by      *)
(* sessionPromise (sp, as it is after the line above) for a supported      *)
(* method only.                                                            *)
AwaitedPromise(m, sp) == IF m \in supportedMethods THEN sp ELSE 0

(* payload.params.push(convertNumberToHex(payload.params[0].chainId)) on   *)
(* the caller's payload object, for eth_sendTransaction only.              *)
AugmentParams(m, ps, cid) ==
  IF m = "eth_sendTransaction" THEN Append(ps, convertNumberToHex(cid)) ELSE ps

SendAsync(r) ==
  LET m == Method[r] IN
  /\ Quiescent
  /\ Len(calls) < MaxCalls
  /\ IF StartsNegotiation(m, sessionPromise)
       THEN /\ \E conn \in BOOLEAN, accts \in RestoredAccounts :
                 /\ (~conn => accts = <<>>)
                 /\ insts' = Append(insts, createWebconnector(conn, accts))
            /\ webconnector' = Len(insts) + 1
            /\ sessionPromise' = Len(insts) + 1
       ELSE UNCHANGED <<insts, webconnector, sessionPromise>>
  /\ params' = [params EXCEPT ![r] = AugmentParams(m, @, ChainIdOf[r])]
  /\ LET p == AwaitedPromise(m, sessionPromise') IN
     calls' = Append(calls,
       [req |-> r, p |-> p, pc |-> "wait", cbs |-> <<>>, fwd |-> <<>>,
        sp0 |-> sessionPromise, n0 |-> Len(insts),
        susp |-> (p # 0 /\ insts'[p].promise = "pending")])
  /\ UNCHANGED <<modal, hooks, abortSaw, showQRCode>>

----------------------------------------------------------------------------
(* sendAsync: the continuations chained on p *)

Invoke(c, inv) == [calls EXCEPT ![c].cbs = Append(@, inv), ![c].pc = "done"]

(* The callback threw when a .then handler invoked it with inv, and the    *)
(* .catch that follows the handler invokes it with again.                  *)
InvokeAndCatch(c, inv, again) ==
  [calls EXCEPT ![c].cbs = @ \o <<inv, again>>, ![c].pc = "done"]

(* p.then(() => webconnector.sendCustomRequest(payload)) ... .catch(err => *)
(* fn(err, null)): a rejected p and a null webconnector (TypeError) both   *)
(* end in fn(err, null); else the payload object is handed to the session  *)
(* the module variable names now.                                          *)
ResumeSigning(c) ==
  LET r == calls[c].req IN
  IF PromiseState(calls[c].p) = "rejected"
    THEN Invoke(c, getCallback(r, "SessionError", "null", <<>>))
    ELSE IF webconnector = 0
      THEN Invoke(c, getCallback(r, "TypeError", "null", <<>>))
      ELSE [calls EXCEPT ![c].pc = "custom",
                         ![c].fwd = Append(@, [inst |-> webconnector,
                                               params |-> params[r]])]

(* let accounts = null; if (webconnector && webconnector.session) accounts *)
(* = webconnector.session.accounts; the callback gets accounts || [].      *)
CurrentAccounts == IF webconnector # 0 THEN insts[webconnector].accounts ELSE <<>>

(* A callback that throws in the .then handler rejects the promise the     *)
(* .catch is chained on, and getCallback(payload, callback) runs with the  *)
(* thrown error.                                                           *)
ResumeAccounts(c, throws) ==
  LET r == calls[c].req IN
  IF PromiseState(calls[c].p) = "rejected"
    THEN Invoke(c, getCallback(r, "SessionError", "absent", <<>>))
    ELSE IF throws
      THEN InvokeAndCatch(c, getCallback(r, "none", "list", CurrentAccounts),
                          getCallback(r, "CallbackError", "absent", <<>>))
      ELSE Invoke(c, getCallback(r, "none", "list", CurrentAccounts))

(* this._sendAsync(payload, callback): request.send either throws, and the *)
(* callback gets Error("Invalid connection"), or the request is in flight. *)
(* A callback that throws there throws out of _sendAsync and of the .then  *)
(* handler, and the .catch of sendAsync invokes it with                    *)
(* Error("Invalid connection ...").                                        *)
ResumePlain(c, sendOk, throws) ==
  IF sendOk
    THEN [calls EXCEPT ![c].pc = "http"]
    ELSE IF throws
      THEN InvokeAndCatch(c, [err |-> "InvalidConnection", res |-> Absent],
                          [err |-> "InvalidConnection", res |-> Absent])
      ELSE Invoke(c, [err |-> "InvalidConnection", res |-> Absent])

(* The continuations run in the order they were registered. *)
FirstReady(c) == Ready(c) /\ \A d \in 1..(c - 1) : ~Ready(d)

Resume(c) ==
  /\ FirstReady(c)
  /\ LET k == classify(Method[calls[c].req]) IN
       \/ k = "SigningSession" /\ calls' = ResumeSigning(c)
       \/ k = "AccountsQuery" /\ \E throws \in BOOLEAN :
                                   calls' = ResumeAccounts(c, throws)
       \/ k = "PlainRelay" /\ \E sendOk, throws \in BOOLEAN :
                                calls' = ResumePlain(c, sendOk, throws)
  /\ UNCHANGED <<webconnector, sessionPromise, insts, modal, params, hooks,
                 abortSaw, showQRCode>>

(* The promise of sendCustomRequest settles: fn(null, result) or           *)
(* fn(err, null).  A callback that throws in fn(null, result) rejects the  *)
(* promise the .catch is chained on, and fn(err, null) runs with the       *)
(* thrown error.                                                           *)
CustomResponse(c, ok) ==
  /\ Quiescent
  /\ calls[c].pc = "custom"
  /\ \E throws \in BOOLEAN :
       calls' =
         IF ok
           THEN IF throws
             THEN InvokeAndCatch(c,
                    getCallback(calls[c].req, "none", "value", <<"0xsig">>),
                    getCallback(calls[c].req, "CallbackError", "null", <<>>))
             ELSE Invoke(c, getCallback(calls[c].req, "none", "value", <<"0xsig">>))
           ELSE Invoke(c, getCallback(calls[c].req, "RequestError", "null", <<>>))
  /\ UNCHANGED <<webconnector, sessionPromise, insts, modal, params, hooks,
                 abortSaw, showQRCode>>

(* The timeout the provider is constructed with (this.timeout).            *)
timeout == 5000

(* The timeout of the XMLHttpRequest that prepareRequest returns: the      *)
(* request is opened and given its headers; request.timeout is not         *)
(* assigned, so it keeps the default of a new XMLHttpRequest, 0 (no timer),*)
(* whatever this.timeout is.                                               *)
prepareRequest(t) == [timeout |-> 0]

HttpEvents == {"load", "garbled", "timeout"}

(* The events of the request in flight.  request.onreadystatechange with   *)
(* readyState 4: the body is parsed and handed over as it is, or does not  *)
(* parse.  request.ontimeout, which the browser fires only for a request   *)
(* whose timeout is positive: callback(Error("Connection timeout")).       *)
HttpResponse(c, ev) ==
  /\ Quiescent
  /\ calls[c].pc = "http"
  /\ ev = "timeout" => prepareRequest(timeout).timeout > 0
  /\ calls' = Invoke(c, CASE ev = "load" ->
                              [err |-> "none", res |-> ParsedBody(calls[c].req)]
                           [] ev = "garbled" ->
                              [err |-> "InvalidResponse", res |-> RawText]
                           [] ev = "timeout" ->
                              [err |-> "ConnectionTimeout", res |-> Absent])
  /\ UNCHANGED <<webconnector, sessionPromise, insts, modal, params, hooks,
                 abortSaw, showQRCode>>

----------------------------------------------------------------------------
(* Events of the pairing transport and of the QR modal *)

RunHook(h, i) == hooks \cup {<<h, i>>}

(* createSession() resolved: onCreate(uri), and with showQRCode the modal  *)
(* is opened with the abort callback of this negotiation; the promise      *)
(* returned by createWebconnector is from now on settled by the connect    *)
(* listener (d.then(resolve).catch(reject)).                               *)
CreateSessionOk(i) ==
  /\ Quiescent
  /\ insts[i].phase = "creating"
  /\ insts' = [insts EXCEPT ![i].phase = "offered"]
  /\ hooks' = RunHook("onCreate", i)
  /\ modal' = IF showQRCode THEN i ELSE modal
  /\ UNCHANGED <<webconnector, sessionPromise, params, calls, abortSaw,
                 showQRCode>>

(* Faulty variant: the failure clears the session and keeps its future.    *)
FailureSlotsKeepFuture == [wc |-> 0, sp |-> sessionPromise]

(* What the .catch of createSession() leaves in the two slots; neither     *)
(* resolve nor reject of the returned promise is called.                   *)
FailureSlots == [wc |-> 0, sp |-> 0]

CreateSessionFail(i) ==
  /\ Quiescent
  /\ insts[i].phase = "creating"
  /\ insts' = [insts EXCEPT ![i].phase = "failed"]
  /\ webconnector' = FailureSlots.wc
  /\ sessionPromise' = FailureSlots.sp
  /\ UNCHANGED <<modal, params, calls, hooks, abortSaw, showQRCode>>

(* What the connect listener leaves in the two slots: it assigns neither,  *)
(* with or without an error.                                               *)
ConnectSlots(err) == [wc |-> webconnector, sp |-> sessionPromise]

(* The connect listener.  With an error: reject(error) and nothing else.   *)
(* Without: onConnect, the modal is closed (with showQRCode), and the      *)
(* promise resolves with the accounts of the payload.                      *)
ConnectEvent(i, err, accts) ==
  /\ Quiescent
  /\ insts[i].phase = "offered"
  /\ insts[i].listens = "connect"
  /\ IF err
       THEN /\ insts' = [insts EXCEPT ![i].phase = "closed", ![i].promise = "rejected"]
            /\ UNCHANGED <<hooks, modal>>
       ELSE /\ insts' = [insts EXCEPT ![i].phase = "approved", ![i].connected = TRUE,
                                      ![i].accounts = accts, ![i].promise = "resolved"]
            /\ hooks' = RunHook("onConnect", i)
            /\ modal' = IF showQRCode THEN 0 ELSE modal
  /\ webconnector' = ConnectSlots(err).wc
  /\ sessionPromise' = ConnectSlots(err).sp
  /\ UNCHANGED <<params, calls, abortSaw, showQRCode>>

(* The disconnect listener (a session that was rejected by the wallet, or  *)
(* an approved one that ended).  With an error the listener throws;        *)
(* without, onDisconnect runs and the modal is closed.  No slot is         *)
(* assigned and the promise is not settled.  An instance that was          *)
(* connected at construction has no disconnect listener.                   *)
DisconnectEvent(i, err) ==
  /\ Quiescent
  /\ insts[i].phase \in {"offered", "approved"}
  /\ insts' = [insts EXCEPT ![i].phase = "closed", ![i].connected = FALSE,
                            ![i].accounts = <<>>]
  /\ IF insts[i].listens = "connect" /\ ~err
       THEN /\ hooks' = RunHook("onDisconnect", i)
            /\ modal' = IF showQRCode THEN 0 ELSE modal
       ELSE UNCHANGED <<hooks, modal>>
  /\ UNCHANGED <<webconnector, sessionPromise, params, calls, abortSaw,
                 showQRCode>>

(* A session_update of a connected session.  Only an instance that was     *)
(* connected at construction without accounts has the listener: with an    *)
(* error it rejects, without it runs onUpdate and resolves (both without   *)
(* effect on a promise that is settled already).                           *)
SessionUpdate(i, err, accts) ==
  /\ Quiescent
  /\ insts[i].phase = "approved"
  /\ LET settle(new) == IF insts[i].listens = "update" /\ insts[i].promise = "pending"
                          THEN new ELSE insts[i].promise IN
     IF err
       THEN /\ insts' = [insts EXCEPT ![i].promise = settle("rejected")]
            /\ UNCHANGED hooks
       ELSE /\ insts' = [insts EXCEPT ![i].accounts = accts,
                                      ![i].promise = settle("resolved")]
            /\ hooks' = IF insts[i].listens = "update"
                           THEN RunHook("onUpdate", i) ELSE hooks
  /\ UNCHANGED <<webconnector, sessionPromise, modal, params, calls, abortSaw,
                 showQRCode>>

(* Faulty variant: the abort callback does not clear the session future.   *)
AbortSlotsKeepFuture == [wc |-> 0, sp |-> sessionPromise]

(* Faulty variant: the abort callback does not clear the session.          *)
AbortSlotsKeepSession == [wc |-> webconnector, sp |-> 0]

(* What the abort callback of the modal leaves in the two slots.           *)
AbortSlots == [wc |-> 0, sp |-> 0]

(* The user closes the modal: the abort callback given to open() runs:     *)
(* both slots are cleared, then onAbort(uri) runs.                         *)
Abort ==
  /\ Quiescent
  /\ modal # 0
  /\ webconnector' = AbortSlots.wc
  /\ sessionPromise' = AbortSlots.sp
  /\ abortSaw' = [wc |-> webconnector', sp |-> sessionPromise']
  /\ hooks' = RunHook("onAbort", modal)
  /\ modal' = 0
  /\ UNCHANGED <<insts, params, calls, showQRCode>>

----------------------------------------------------------------------------
(* isConnected() and disconnect() *)

(* Faulty variant: any session that exists counts as connected.            *)
isConnectedAnySession == webconnector # 0

isConnected == webconnector # 0 /\ insts[webconnector].connected

(* disconnect(): killSession() is requested of a connected session; no     *)
(* slot is assigned.                                                       *)
Disconnect ==
  /\ Quiescent
  /\ IF isConnected
       THEN insts' = [insts EXCEPT ![webconnector].killed = TRUE]
       ELSE UNCHANGED insts
  /\ UNCHANGED <<webconnector, sessionPromise, modal, params, calls, hooks,
                 abortSaw, showQRCode>>

----------------------------------------------------------------------------
(* Specification *)

Next ==
  \/ \E r \in Requests : SendAsync(r)
  \/ \E c \in 1..Len(calls) : Resume(c)
  \/ \E c \in 1..Len(calls), ok \in BOOLEAN : CustomResponse(c, ok)
  \/ \E c \in 1..Len(calls), ev \in HttpEvents : HttpResponse(c, ev)
  \/ \E i \in 1..Len(insts) : CreateSessionOk(i)
  \/ \E i \in 1..Len(insts) : CreateSessionFail(i)
  \/ \E i \in 1..Len(insts), err \in BOOLEAN, accts \in ConnectAccounts :
       ConnectEvent(i, err, accts)
  \/ \E i \in 1..Len(insts), err \in BOOLEAN : DisconnectEvent(i, err)
  \/ \E i \in 1..Len(insts), err \in BOOLEAN, accts \in UpdateAccounts :
       SessionUpdate(i, err, accts)
  \/ Abort
  \/ Disconnect

Spec == Init /\ [][Next]_vars

(* sendAsync with a request of every method, its continuations and the     *)
(* answers to what it sent or forwarded; the session is the one restored   *)
(* at construction, or stays in negotiation.                               *)
DispatchNext ==
  \/ \E r \in AllRequests : SendAsync(r)
  \/ \E c \in 1..Len(calls) : Resume(c)
  \/ \E c \in 1..Len(calls), ok \in BOOLEAN : CustomResponse(c, ok)
  \/ \E c \in 1..Len(calls), ev \in HttpEvents : HttpResponse(c, ev)

DispatchSpec == Init /\ [][DispatchNext]_vars

(* The microtasks always run; a request that was sent or forwarded is      *)
(* answered.  No event of the wallet or the user is forced.                *)
FairSpec ==
  /\ Spec
  /\ WF_vars(\E c \in 1..Len(calls) : Resume(c))
  /\ WF_vars(\E c \in 1..Len(calls), ok \in BOOLEAN : CustomResponse(c, ok))
  /\ WF_vars(\E c \in 1..Len(calls), ev \in HttpEvents : HttpResponse(c, ev))

(* The microtasks always run, a forwarded request is answered and the      *)
(* timer of a request in flight fires when it is due; the node is not      *)
(* required to respond.                                                    *)
NoReplySpec ==
  /\ Spec
  /\ WF_vars(\E c \in 1..Len(calls) : Resume(c))
  /\ WF_vars(\E c \in 1..Len(calls), ok \in BOOLEAN : CustomResponse(c, ok))
  /\ WF_vars(\E c \in 1..Len(calls) : HttpResponse(c, "timeout"))

----------------------------------------------------------------------------
(* Vocabulary of the properties *)

CallIds == 1..Len(calls)

InstIds == 1..Len(insts)

Class(c) == classify(Method[calls[c].req])

NeedsSession(c) == Class(c) \in {"SigningSession", "AccountsQuery"}

(* The call created an instance, hence started a negotiation or restored a *)
(* session.                                                                *)
CreatedInstance(c) == calls[c].p > calls[c].n0

Aborted(i) == <<"onAbort", i>> \in hooks

(* A negotiation that was started and has not ended: createSession is     *)
(* pending, or the URI is offered and was neither approved, refused nor    *)
(* aborted.                                                                *)
InFlight(i) == insts[i].phase \in {"creating", "offered"} /\ ~Aborted(i)

----------------------------------------------------------------------------
(* C1. Idempotent negotiation: a call that needs a session and finds a     *)
(* session future creates no instance and chains on that very future, so   *)
(* every instance was created by exactly one call that found no future; at *)
(* most one negotiation is in flight at any time, it is the one both slots *)
(* name, and every call suspended on it chains on the one sessionPromise.  *)
C1_IdempotentNegotiation ==
  /\ \A c \in CallIds : NeedsSession(c) /\ calls[c].sp0 # 0 =>
       ~CreatedInstance(c) /\ calls[c].p = calls[c].sp0
  /\ Len(insts) = Cardinality({c \in CallIds : calls[c].sp0 = 0 /\ NeedsSession(c)})
  /\ \A i \in InstIds : InFlight(i) => sessionPromise = i /\ webconnector = i
  /\ \A i \in InstIds, c \in CallIds :
       InFlight(i) /\ NeedsSession(c) /\ calls[c].n0 >= i => calls[c].p = i

(* Two calls that need a session are suspended on the one negotiation in   *)
(* flight.                                                                 *)
C1_Witness ==
  /\ Len(calls) = 2 /\ Len(insts) = 1 /\ InFlight(1)
  /\ \A c \in CallIds : NeedsSession(c) /\ calls[c].pc = "wait" /\ calls[c].p = 1

----------------------------------------------------------------------------
(* The negotiation of instance i has ended in one of the four ways:        *)
(* createSession failed, the connect event came without or with an error   *)
(* (the promise is settled), or the QR approval was aborted.               *)
NegotiationEnded(i) ==
  /\ insts[i].listens = "connect"
  /\ \/ insts[i].phase = "failed"
     \/ insts[i].promise # "pending"
     \/ Aborted(i)

SuspendedOnEnded(c) ==
  /\ c \in CallIds
  /\ NeedsSession(c)
  /\ calls[c].pc = "wait"
  /\ calls[c].p # 0
  /\ NegotiationEnded(calls[c].p)

CalledBack(c) == c \in CallIds /\ Len(calls[c].cbs) > 0

(* C2. Every call that needs a session and is suspended on a negotiation   *)
(* that has ended (connect without error, connect with error, failure of   *)
(* createSession, abort of the QR approval) eventually has its callback    *)
(* invoked.                                                                *)
C2_EventuallyCalledBack ==
  \A c \in 1..MaxCalls : SuspendedOnEnded(c) ~> CalledBack(c)

----------------------------------------------------------------------------
(* The connect listener of instance i rejected the session future.         *)
ConnectFailed(i) == insts[i].listens = "connect" /\ insts[i].promise = "rejected"

(* C3. A negotiation failure does not poison later calls: once the connect *)
(* event carried an error the session state is cleared, so no call that    *)
(* needs a session and is issued after it chains on the rejected future of *)
(* the failed negotiation (it starts a new negotiation instead).           *)
C3_FailureDoesNotPoison ==
  [][ /\ Len(calls') = Len(calls) + 1
      /\ classify(Method[calls'[Len(calls')].req]) # "PlainRelay"
      /\ calls'[Len(calls')].p \in InstIds
      => ~ConnectFailed(calls'[Len(calls')].p) ]_vars

----------------------------------------------------------------------------
(* C4. Abort resets cleanly: onAbort runs with both slots cleared already; *)
(* an aborted instance and its future are named by neither slot again; and *)
(* a call that needs a session and finds no future (as the first one after *)
(* an abort does) creates a new instance and chains on its new future,     *)
(* never on the future of an aborted negotiation.                          *)
C4_AbortResetsCleanly ==
  /\ abortSaw.wc \in {-1, 0} /\ abortSaw.sp \in {-1, 0}
  /\ \A i \in InstIds : Aborted(i) => sessionPromise # i /\ webconnector # i
  /\ \A c \in CallIds : NeedsSession(c) /\ calls[c].sp0 = 0 =>
       /\ calls[c].p = calls[c].n0 + 1
       /\ \A i \in 1..calls[c].n0 : calls[c].p # i

(* The approval of instance 1 was aborted and a later call negotiates with *)
(* instance 2.                                                             *)
C4_Witness ==
  /\ Len(insts) = 2 /\ Aborted(1) /\ abortSaw = [wc |-> 0, sp |-> 0]
  /\ \E c \in CallIds : NeedsSession(c) /\ calls[c].p = 2 /\ calls[c].n0 = 1
  /\ sessionPromise = 2 /\ webconnector = 2 /\ InFlight(2)

----------------------------------------------------------------------------
(* An eth_accounts call that found no session future and whose new         *)
(* instance was not connected: it was issued with no session established.  *)
AccountsWithoutSession(c) ==
  /\ Class(c) = "AccountsQuery"
  /\ calls[c].sp0 = 0
  /\ insts[calls[c].n0 + 1].listens = "connect"

(* C5 as stated. Accounts-query never blocks on absence: once the task     *)
(* that issued it is over, an eth_accounts call issued with no session     *)
(* established has had its callback invoked with no error and              *)
(* {id, jsonrpc, result: []}, without waiting for the wallet.              *)
C5_NeverBlocksOnAbsence ==
  \A c \in CallIds : AccountsWithoutSession(c) /\ Quiescent =>
    calls[c].cbs = <<getCallback(calls[c].req, "none", "list", <<>>)>>

(* C5 as amended. An eth_accounts call issued with no session established  *)
(* starts a negotiation and chains on its future: the callback is not      *)
(* invoked while that future is pending; when the future is resolved the   *)
(* callback gets no error and {id, jsonrpc, result} with the accounts the  *)
(* session named by webconnector reports at that moment ([] when           *)
(* webconnector is null); when it is rejected the callback gets the error  *)
(* and {id, jsonrpc}.                                                      *)
C5_AccountsAwaitNegotiation ==
  [][ \A c \in 1..Len(calls') :
        LET i == calls'[c].n0 + 1
            r == calls'[c].req IN
        /\ classify(Method[r]) = "AccountsQuery"
        /\ calls'[c].sp0 = 0
        /\ insts'[i].listens = "connect"
        => /\ calls'[c].p = i
           /\ insts'[i].promise = "pending" => calls'[c].cbs = <<>>
           /\ c \in CallIds /\ calls[c].pc = "wait" /\ calls'[c].pc = "done" =>
                /\ Len(calls'[c].cbs) >= 1
                /\ calls'[c].cbs[1] =
                     IF insts[i].promise = "resolved"
                       THEN getCallback(r, "none", "list", CurrentAccounts)
                       ELSE getCallback(r, "SessionError", "absent", <<>>) ]_vars

(* Such a call was called back with the accounts of the approved session.  *)
C5_Witness ==
  \E c \in CallIds :
    /\ AccountsWithoutSession(c)
    /\ calls[c].pc = "done"
    /\ calls[c].cbs = <<getCallback(calls[c].req, "none", "list", <<"a1">>)>>

----------------------------------------------------------------------------
(* C6. A plain-relay call never triggers negotiation: every step in which  *)
(* a plain-relay call is issued or advances leaves webconnector,           *)
(* sessionPromise and the instances as they are (no instance is created,   *)
(* no createSession requested); with no session ever established the call  *)
(* does not stay suspended, its request goes out over HTTP; and when the   *)
(* node answers with a well-formed body the callback gets no error and the *)
(* parsed body.                                                            *)
C6_PlainRelayNeverNegotiates ==
  [][ \A c \in 1..Len(calls') :
        LET r == calls'[c].req IN
        classify(Method[r]) = "PlainRelay" =>
          /\ c \notin CallIds \/ calls'[c] # calls[c] =>
               UNCHANGED <<webconnector, sessionPromise, insts>>
          /\ Len(insts') = 0 /\ Quiescent' => calls'[c].pc \in {"http", "done"}
          /\ c \in CallIds /\ calls[c].pc = "http" /\ calls'[c].pc = "done"
               /\ calls'[c].cbs[1].err = "none" =>
               calls'[c].cbs = <<[err |-> "none", res |-> ParsedBody(r)]>> ]_vars

(* With no instance ever created a plain-relay call was relayed and called *)
(* back with the parsed body.                                              *)
C6_Witness ==
  /\ Len(insts) = 0 /\ webconnector = 0 /\ sessionPromise = 0
  /\ \E c \in CallIds :
       /\ Class(c) = "PlainRelay"
       /\ calls[c].pc = "done"
       /\ calls[c].cbs = <<[err |-> "none", res |-> ParsedBody(calls[c].req)]>>

----------------------------------------------------------------------------
(* A plain-relay call that found a session future whose negotiation is     *)
(* still in flight.                                                        *)
PlainDuringNegotiation(c) ==
  /\ Class(c) = "PlainRelay"
  /\ calls[c].sp0 # 0
  /\ InFlight(calls[c].sp0)

(* C7 as stated. A plain-relay call issued while a session future exists   *)
(* and its negotiation is pending waits on that future: as long as the     *)
(* negotiation has not settled the HTTP request is not sent.               *)
C7_PlainRelayWaitsForFuture ==
  \A c \in CallIds : PlainDuringNegotiation(c) => calls[c].pc = "wait"

(* C7 as amended. A plain-relay call never waits on the session future: it *)
(* chains on Promise.resolve([]), so the step that follows its issue is    *)
(* its own continuation, which sends the HTTP request (or reports that the *)
(* send threw), whether or not a negotiation is pending.                   *)
C7_PlainRelayDoesNotWait ==
  [][ \A c \in 1..Len(calls') :
        classify(Method[calls'[c].req]) = "PlainRelay" =>
          /\ calls'[c].p = 0
          /\ c \in CallIds /\ calls[c].pc = "wait" =>
               calls'[c].pc \in {"http", "done"} ]_vars

(* The HTTP request of a plain-relay call is out while the negotiation it  *)
(* found is still in flight.                                               *)
C7_Witness ==
  \E c \in CallIds : PlainDuringNegotiation(c) /\ calls[c].pc = "http"

----------------------------------------------------------------------------
Echoes(c, inv) ==
  /\ inv.res.id = ReqId[calls[c].req]
  /\ inv.res.jsonrpc = ReqVer[calls[c].req]

(* C8 as stated. Response echo: on every dispatch path, for success and    *)
(* failure, what the callback receives carries the id and the jsonrpc      *)
(* version of the request.                                                 *)
C8_ResponseEcho ==
  \A c \in CallIds : \A k \in 1..Len(calls[c].cbs) : Echoes(c, calls[c].cbs[k])

(* C8 as amended. On the signing-session and the accounts-query path, for  *)
(* success and failure, the object the callback receives carries the id    *)
(* and the jsonrpc version of the request.  On the plain-relay path the    *)
(* callback receives the parsed body of the node as it is on success, and  *)
(* on failure an error with no response object (nothing, or the raw text   *)
(* of a body that does not parse).                                         *)
C8_ResponseEchoOnSessionPaths ==
  \A c \in CallIds : \A k \in 1..Len(calls[c].cbs) :
    LET inv == calls[c].cbs[k] IN
    IF NeedsSession(c)
      THEN Echoes(c, inv)
      ELSE IF inv.err = "none"
        THEN inv.res = ParsedBody(calls[c].req)
        ELSE inv.res \in {Absent, RawText}

(* A signing call failed and an accounts call succeeded, each called back  *)
(* with the id and version of its request.                                 *)
C8_Witness ==
  /\ \E c \in CallIds :
       /\ Class(c) = "SigningSession" /\ calls[c].pc = "done"
       /\ calls[c].cbs[1].err # "none" /\ Echoes(c, calls[c].cbs[1])
  /\ \E c \in CallIds :
       /\ Class(c) = "AccountsQuery" /\ calls[c].pc = "done"
       /\ calls[c].cbs[1].err = "none" /\ Echoes(c, calls[c].cbs[1])

----------------------------------------------------------------------------
(* C9. The request is immutable as received: the params of every caller's  *)
(* request object are after any number of dispatches what they were        *)
(* before; the chain id is appended to the forwarded copy only.            *)
C9_RequestImmutable == params = InitParams

----------------------------------------------------------------------------
(* C10. A signing request dispatched while the negotiation is pending is   *)
(* suspended: nothing is handed to sendCustomRequest for it while the      *)
(* session future is pending, and once the negotiation (one that was not   *)
(* aborted) has resolved and the continuation has run, the request has     *)
(* been handed to sendCustomRequest exactly once, with the hex-encoded     *)
(* chain id appended to its params.                                        *)
C10_SuspendedThenForwardedOnce ==
  \A c \in CallIds :
    LET r == calls[c].req
        i == calls[c].p IN
    Method[r] = "eth_sendTransaction" /\ calls[c].susp
      /\ insts[i].listens = "connect" =>
      /\ insts[i].promise = "pending" => calls[c].fwd = <<>>
      /\ insts[i].promise = "resolved" /\ ~Aborted(i) /\ calls[c].pc # "wait" =>
           /\ Len(calls[c].fwd) = 1
           /\ calls[c].fwd[1].params =
                Append(InitParams[r], convertNumberToHex(ChainIdOf[r]))

----------------------------------------------------------------------------
(* The session of instance i was established by a negotiation and then     *)
(* disconnected (its disconnect listener has run).                         *)
Disconnected(i) ==
  /\ insts[i].listens = "connect"
  /\ insts[i].phase = "closed" /\ insts[i].promise = "resolved"

(* C11. After a disconnect event on an established session the session     *)
(* counts as not connected, and every call that needs a session and is     *)
(* issued afterwards treats the session as unestablished: it does not      *)
(* chain on the resolved future of the disconnected session (it starts a   *)
(* new negotiation instead).                                               *)
C11_DisconnectUnestablishes ==
  [][ /\ \A i \in InstIds : Disconnected(i) => ~insts[i].connected
      /\ Len(calls') = Len(calls) + 1
           /\ classify(Method[calls'[Len(calls')].req]) # "PlainRelay"
           /\ calls'[Len(calls')].p \in InstIds
           => ~Disconnected(calls'[Len(calls')].p) ]_vars

----------------------------------------------------------------------------
(* The HTTP request of call c is in flight.                                *)
HttpInFlight(c) == c \in CallIds /\ calls[c].pc = "http"

(* The callback of call c received the timeout error.                      *)
TimedOut(c) ==
  c \in CallIds /\ \E k \in 1..Len(calls[c].cbs) :
                     calls[c].cbs[k].err = "ConnectionTimeout"

(* The node responded to the request of call c.                            *)
Responded(c) ==
  c \in CallIds /\ \E k \in 1..Len(calls[c].cbs) :
                     calls[c].cbs[k].err \in {"none", "InvalidResponse"}

(* C12. Round-trip timeout: with a provider constructed with a positive    *)
(* timeout, a plain-relay call whose HTTP request is in flight and to      *)
(* which the node never responds eventually has its callback invoked with  *)
(* the timeout error.                                                      *)
C12_TimeoutReported ==
  \A c \in 1..MaxCalls : HttpInFlight(c) ~> (TimedOut(c) \/ Responded(c))

----------------------------------------------------------------------------
(* C13. disconnect() requests killSession of the session if and only if a  *)
(* session exists and reports connected, and leaves webconnector and       *)
(* sessionPromise as they are: a step in which killSession is requested of *)
(* an instance is a step on the connected instance webconnector names and  *)
(* assigns neither slot; a disconnect() with such an instance leaves it    *)
(* with killSession requested, and a disconnect() without one requests     *)
(* nothing.                                                                *)
C13_DisconnectFrame ==
  [][ /\ \A i \in InstIds : insts'[i].killed /\ ~insts[i].killed =>
           /\ webconnector = i /\ insts[i].connected
           /\ webconnector' = webconnector /\ sessionPromise' = sessionPromise
      /\ Disconnect =>
           /\ webconnector' = webconnector /\ sessionPromise' = sessionPromise
           /\ IF webconnector # 0 /\ insts[webconnector].connected
                THEN insts'[webconnector].killed
                ELSE \A i \in InstIds : insts'[i].killed = insts[i].killed ]_vars

C13_Witness ==
  \E i \in InstIds : insts[i].killed /\ webconnector = i /\ sessionPromise = i

----------------------------------------------------------------------------
(* The three paths of sendAsync, as they show in what a call does.         *)
TookAccountsPath(c) ==
  /\ calls[c].p # 0 /\ calls[c].fwd = <<>> /\ calls[c].pc \in {"wait", "done"}
  /\ \A k \in 1..Len(calls[c].cbs) : calls[c].cbs[k].res.rkind \in {"list", "absent"}

TookSigningPath(c) ==
  /\ calls[c].p # 0 /\ calls[c].pc \in {"wait", "custom", "done"}
  /\ calls[c].pc = "custom" => calls[c].fwd # <<>>
  /\ \A k \in 1..Len(calls[c].cbs) : calls[c].cbs[k].res.rkind \in {"value", "null"}
  /\ \A k \in 1..Len(calls[c].cbs) :
       calls[c].cbs[k].res.rkind = "value" => calls[c].fwd # <<>>

TookPlainPath(c) ==
  /\ calls[c].p = 0 /\ calls[c].fwd = <<>> /\ calls[c].pc \in {"wait", "http", "done"}
  /\ \A k \in 1..Len(calls[c].cbs) :
       calls[c].cbs[k].res \in {Absent, RawText, ParsedBody(calls[c].req)}

(* C14. Classification totality: every method name is routed to exactly    *)
(* one of the three paths: eth_accounts to the accounts path, each of      *)
(* eth_signTransaction, eth_sendTransaction, eth_sign,                     *)
(* eth_signTypedDataLegacy, eth_signTypedData and personal_sign to the     *)
(* signing path, every other method to the plain relay; supportedMethods   *)
(* is eth_accounts and these six, and no method is left without a path.    *)
C14_ClassificationTotal ==
  LET signing == {"eth_signTransaction", "eth_sendTransaction", "eth_sign",
                  "eth_signTypedDataLegacy", "eth_signTypedData", "personal_sign"} IN
  /\ supportedMethods = {"eth_accounts"} \cup signing
  /\ \A c \in CallIds :
       LET m == Method[calls[c].req] IN
       /\ Class(c) \in {"AccountsQuery", "SigningSession", "PlainRelay"}
       /\ m = "eth_accounts" =>
            Class(c) = "AccountsQuery" /\ TookAccountsPath(c)
       /\ m \in signing =>
            Class(c) = "SigningSession" /\ TookSigningPath(c)
       /\ m \notin signing \cup {"eth_accounts"} =>
            Class(c) = "PlainRelay" /\ TookPlainPath(c)

C14_Witness ==
  \E c, d \in CallIds :
    /\ Method[calls[c].req] = "personal_sign" /\ calls[c].fwd # <<>>
    /\ Method[calls[d].req] = "net_version" /\ calls[d].pc = "http"

----------------------------------------------------------------------------
(* C15. If createSession fails, both the session reference and the session *)
(* future are cleared by that very step, and the next call that needs a    *)
(* session (one issued while the last instance is the failed one) starts a *)
(* new negotiation: it creates an instance and chains on its future.       *)
C15_CreateFailureClears ==
  [][ /\ \A i \in InstIds :
           insts[i].phase = "creating" /\ insts'[i].phase = "failed" =>
             webconnector' = 0 /\ sessionPromise' = 0
      /\ /\ Len(calls') = Len(calls) + 1
         /\ classify(Method[calls'[Len(calls')].req]) # "PlainRelay"
         /\ insts # <<>> /\ insts[Len(insts)].phase = "failed"
         => /\ Len(insts') = Len(insts) + 1
            /\ calls'[Len(calls')].p = Len(insts')
            /\ sessionPromise' = Len(insts') /\ webconnector' = Len(insts')
            /\ insts'[Len(insts')].phase \in {"creating", "approved"} ]_vars

(* createSession of instance 1 failed and a later call made instance 2.    *)
C15_Witness ==
  /\ Len(insts) = 2 /\ insts[1].phase = "failed"
  /\ \E c \in CallIds : NeedsSession(c) /\ calls[c].n0 = 1 /\ calls[c].p = 2

----------------------------------------------------------------------------
(* createWebconnector called op on instance i.                             *)
Called(i, op) == \E k \in 1..Len(insts[i].ops) : insts[i].ops[k] = op

(* createWebconnector called a on instance i, and b only after it.         *)
CalledBefore(i, a, b) ==
  \E k \in 1..Len(insts[i].ops) :
    insts[i].ops[k] = a /\ \A j \in 1..k : insts[i].ops[j] # b

(* C16. In every negotiation the connect and the disconnect listener are   *)
(* registered on the instance before createSession is requested of it, so  *)
(* the listeners are there as long as the negotiation lasts, and a connect *)
(* event delivered after the request is handled: the session it approved   *)
(* has run onConnect and resolved the future, the one it refused has       *)
(* rejected it.                                                            *)
C16_ListenersBeforeCreateSession ==
  \A i \in InstIds :
    /\ insts[i].phase \in {"creating", "offered", "failed"} =>
         Called(i, "createSession")
    /\ Called(i, "createSession") =>
         /\ CalledBefore(i, "on:connect", "createSession")
         /\ CalledBefore(i, "on:disconnect", "createSession")
         /\ insts[i].listens = "connect"
         /\ insts[i].phase = "approved" =>
              insts[i].promise = "resolved" /\ <<"onConnect", i>> \in hooks
         /\ insts[i].promise = "rejected" => insts[i].phase = "closed"
         /\ <<"onDisconnect", i>> \in hooks => insts[i].phase = "closed"

(* A negotiation whose connect event was handled, and one whose            *)
(* disconnect event was.                                                   *)
C16_Witness ==
  /\ \E i \in InstIds : /\ Called(i, "createSession")
                        /\ insts[i].phase = "approved"
                        /\ <<"onConnect", i>> \in hooks
  /\ \E i \in InstIds : /\ Called(i, "createSession")
                        /\ <<"onDisconnect", i>> \in hooks

----------------------------------------------------------------------------
(* C17. Every session_update event the wallet pushes after the initial     *)
(* connect of a session is translated into an invocation of onUpdate and   *)
(* leaves no accounts future of that session outstanding.                  *)
C17_UpdatesReachOnUpdate ==
  [][ \A i \in InstIds, accts \in UpdateAccounts :
        <<"onConnect", i>> \in hooks /\ SessionUpdate(i, FALSE, accts) =>
          <<"onUpdate", i>> \in hooks' /\ insts'[i].promise # "pending" ]_vars

----------------------------------------------------------------------------
(* C18. Each sendAsync call invokes the caller's callback at most once, on *)
(* every path and in every interleaving, also when the callback throws     *)
(* while it is invoked and when the HTTP send fails synchronously.         *)
C18_CallbackAtMostOnce == \A c \in CallIds : Len(calls[c].cbs) <= 1

----------------------------------------------------------------------------
(* C19. Whenever a signing request is handed to sendCustomRequest, the     *)
(* session it is handed to is the instance produced by the negotiation the *)
(* call awaited (the one whose future resolved with its connect event); a  *)
(* connect event on an aborted instance never has a request forwarded to a *)
(* different session.                                                      *)
C19_ForwardsToAwaitedSession ==
  \A c \in CallIds : \A k \in 1..Len(calls[c].fwd) :
    calls[c].fwd[k].inst = calls[c].p

----------------------------------------------------------------------------
(* C20. Slot consistency: in every state between two operations the        *)
(* session future is set if and only if the session reference is set (and  *)
(* then the future is the one of the instance the reference names).        *)
C20_SlotConsistency ==
  /\ sessionPromise # 0 <=> webconnector # 0
  /\ sessionPromise # 0 => sessionPromise = webconnector

(* Both slots were set and cleared twice, by an abort and by a failure of  *)
(* createSession, and are clear.                                           *)
C20_Witness ==
  /\ sessionPromise = 0 /\ webconnector = 0
  /\ \E i, j \in InstIds : Aborted(i) /\ insts[j].phase = "failed"

====
